---- MODULE Spec2Model ----
(***************************************************************************)
(* KMIP session state machines of src/mongo/db/encryption/kmip_session.h:  *)
(* KmipSessionRegisterSymmetricKey, KmipSessionGetSymmetricKey and         *)
(* KmipSessionVerifyKeyIsActive, driven by a caller that asks for the next *)
(* exchange, runs it against a server and reads the terminal accessor.     *)
(* The exchange objects (kmip_exchange.h) are modelled from their contract.*)
(***************************************************************************)
EXTENDS Integers, Sequences, FiniteSets, TLC

\* ------------------------------------------------------------------ bounds
\* Number of distinct server-assigned key identifiers (0 is the empty string).
NumKeyIds == 2
\* Number of distinct keys (0 is a default-constructed Key).
NumKeys == 2
\* Number of nextExchange() calls a caller makes on one session.
MaxCalls == 5
\* Number of times the function given to writeConflictRetry() can throw an
\* exception that is retried before it completes or throws another one.
MaxRetried == 3
\* Number of attempts after which handleTemporarilyUnavailableException gives up.
MaxTempUnavailableAttempts == 2
\* Number of distinct values the function given to writeConflictRetry() returns.
NumResults == 2

KeyIds == 1..NumKeyIds
Keys == 1..NumKeys

\* ------------------------------------------------------------------ enums
\* KmipSession*::State
kNotStarted == "kNotStarted"
kRegistering == "kRegistering"
kActivating == "kActivating"
kVerifying == "kVerifying"
kRetrieving == "kRetrieving"
kFinished == "kFinished"

\* The three session classes of the file.
RegisterSymmetricKey == "RegisterSymmetricKey"
GetSymmetricKey == "GetSymmetricKey"
VerifyKeyIsActive == "VerifyKeyIsActive"
Variants == {RegisterSymmetricKey, GetSymmetricKey, VerifyKeyIsActive}

\* KeyEntryError
kKeyDoesNotExist == "kKeyDoesNotExist"
kKeyIsNotActive == "kKeyIsNotActive"
KeyEntryError == {kKeyDoesNotExist, kKeyIsNotActive}

\* Exchange kinds and KmipExchange::State
Register == "Register"
Activate == "Activate"
VerifyActive == "VerifyActive"
Retrieve == "Retrieve"
kCreated == "kCreated"
kRequestEncoded == "kRequestEncoded"
kAwaitingResponse == "kAwaitingResponse"
kResponseReceived == "kResponseReceived"
kInterpreted == "kInterpreted"
kFailed == "kFailed"

\* nullptr of a std::shared_ptr<KmipExchange>; other values index the heap.
nullptr == 0

\* std::optional<T>: the empty sequence or a one-element sequence.
None == <<>>
Some(v) == <<v>>

\* std::variant<Key, KeyEntryError>
KeyAlt(k) == [isKey |-> TRUE, key |-> k, err |-> "-"]
ErrorAlt(e) == [isKey |-> FALSE, key |-> 0, err |-> e]

VARIABLES
    variant,          \* which session class this object is
    _keyRef,          \* RegisterSymmetricKey: const Key& _key
    _withActivation,  \* RegisterSymmetricKey
    _verifyState,     \* GetSymmetricKey
    _keyId,           \* std::string _keyId (0 = "")
    _state,
    _register, _activate, _verify, _retrieve,
    _key,             \* GetSymmetricKey: std::variant<Key, KeyEntryError> _key
    _error,           \* VerifyKeyIsActive: std::optional<KeyEntryError> _error
    exchs,            \* heap of exchange objects created by make_shared
    ret,              \* value returned by the last nextExchange() (-1: none yet)
    produced,         \* kinds of the exchanges returned so far, in order
    calls,            \* number of nextExchange() calls made
    lastOp,           \* the operation performed last and how it ended
    failed,           \* some nextExchange() call ended by an exception
    aborted,          \* an invariant() failed: the process is gone
    got,              \* value returned by the last terminal accessor call
    other,            \* a second session of the process, while the first one runs
    skipWriteConflictRetries,  \* FailPoint: what shouldFail() answers
    opCtx,            \* OperationContext: lock state, client, metrics, recovery unit
    wcr               \* one writeConflictRetry() call: its locals and what it did

\* One session object as its caller sees it.
object == <<variant, _keyRef, _withActivation, _verifyState, _keyId, _state,
            _register, _activate, _verify, _retrieve, _key, _error, exchs,
            ret, produced, calls, lastOp, failed, got>>

\* The state of a writeConflictRetry() call.
retry == <<skipWriteConflictRetries, opCtx, wcr>>

vars == <<object, aborted, other, retry>>

session == <<variant, _keyRef, _withActivation, _verifyState, _keyId, _state,
             _register, _activate, _verify, _retrieve, _key, _error>>

\* --------------------------------------------------------------- responses
\* What a server can answer: bytes that do not parse, a well-formed answer
\* whose status is not success, or a successful answer with its payload.
Malformed == [form |-> "malformed", keyId |-> 0, err |-> None, key |-> None]
OperationFailed == [form |-> "failure", keyId |-> 0, err |-> None, key |-> None]
NoResponse == [form |-> "none", keyId |-> 0, err |-> None, key |-> None]
Success(id, e, k) == [form |-> "success", keyId |-> id, err |-> e, key |-> k]

Responses(kind) ==
    {Malformed, OperationFailed} \cup
    CASE kind = Register -> {Success(id, None, None) : id \in KeyIds}
      [] kind = Activate -> {Success(0, None, None)}
      [] kind = VerifyActive ->
            {Success(0, e, None) : e \in {None} \cup {Some(x) : x \in KeyEntryError}}
      [] kind = Retrieve ->
            {Success(0, None, k) : k \in {None} \cup {Some(x) : x \in Keys}}

\* ---------------------------------------------------------------- exchange
\* make_shared<KmipExchange...>(input)
NewExchange(kind, input) ==
    [kind |-> kind, input |-> input, state |-> kCreated, resp |-> NoResponse,
     decoded |-> 0]

\* An interpretation accessor fails on an answer that is not a success.
DecodeFails(x) == x.resp.form # "success"
decodeKeyId(x) == x.resp.keyId
decodeResponse(x) == x.resp.err
decodeKey(x) == x.resp.key

\* The exchange after its interpretation accessor ran; `decoded` counts the
\* accessor calls made on it.
Interpret(x) ==
    [x EXCEPT !.state = IF DecodeFails(x) THEN kFailed ELSE kInterpreted,
              !.decoded = @ + 1]

EncodeRequest(e) ==
    /\ ~aborted
    /\ exchs[e].state = kCreated
    /\ exchs' = [exchs EXCEPT ![e].state = kRequestEncoded]
    /\ lastOp' = [op |-> "encodeRequest", end |-> "returned"]
    /\ UNCHANGED <<session, ret, produced, calls, failed, aborted, got>>

SendRequest(e) ==
    /\ ~aborted
    /\ exchs[e].state = kRequestEncoded
    /\ exchs' = [exchs EXCEPT ![e].state = kAwaitingResponse]
    /\ lastOp' = [op |-> "send", end |-> "returned"]
    /\ UNCHANGED <<session, ret, produced, calls, failed, aborted, got>>

IngestResponse(e, r) ==
    /\ ~aborted
    /\ exchs[e].state = kAwaitingResponse
    /\ exchs' = [exchs EXCEPT ![e].state =
                        IF r.form = "malformed" THEN kFailed ELSE kResponseReceived,
                    ![e].resp = r]
    /\ lastOp' = [op |-> "ingestResponse", end |-> "returned"]
    /\ UNCHANGED <<session, ret, produced, calls, failed, aborted, got>>

\* ------------------------------------------------------- call bookkeeping
CanCall == ~aborted /\ calls < MaxCalls

\* nextExchange() returns the exchange at heap index e (or nullptr).
Return(e, heap) ==
    /\ ret' = e
    /\ produced' = IF e = nullptr THEN produced ELSE Append(produced, heap[e].kind)
    /\ calls' = calls + 1
    /\ lastOp' = [op |-> "nextExchange", end |-> "returned"]
    /\ UNCHANGED <<failed, aborted, got>>

\* An interpretation accessor throws: the exception leaves nextExchange().
Throw ==
    /\ calls' = calls + 1
    /\ failed' = TRUE
    /\ lastOp' = [op |-> "nextExchange", end |-> "threw"]
    /\ UNCHANGED <<ret, produced, aborted, got>>

\* invariant(cond) failed inside operation op: the process aborts.
InvariantFailure(op) ==
    /\ aborted' = TRUE
    /\ lastOp' = [op |-> op, end |-> "aborted"]
    /\ UNCHANGED <<session, exchs, ret, produced, calls, failed, got>>

\* ------------------------------------------ KmipSessionRegisterSymmetricKey
\* case State::kNotStarted
Register_kNotStarted ==
    /\ _state = kNotStarted
    /\ exchs' = Append(exchs, NewExchange(Register, _keyRef))
    /\ _register' = Len(exchs')
    /\ _state' = kRegistering
    /\ Return(_register', exchs')
    /\ UNCHANGED <<variant, _keyRef, _withActivation, _verifyState, _keyId,
                   _activate, _verify, _retrieve, _key, _error>>

\* Bug: the precondition on the Register exchange is not checked.
RegisterResponseReceived_Unchecked == TRUE

\* invariant(_register->state() == KmipExchange::State::kResponseReceived)
RegisterResponseReceived == exchs[_register].state = kResponseReceived

\* Bug: the test of _withActivation is inverted.
RegisterStopsAfterRegistering_Inverted == _withActivation

\* Bug: the early return for !_withActivation is missing.
RegisterStopsAfterRegistering_Never == FALSE

\* if (!_withActivation) { _state = State::kFinished; return nullptr; }
RegisterStopsAfterRegistering == ~_withActivation

\* Bug: the Register exchange is not released before the Activate one is made.
RegisterReleased_Kept == _register

\* _register = nullptr
RegisterReleased == nullptr

\* Bug: a failure of decodeKeyId() is swallowed and read as an empty key id.
RegisterDecodeThrows_Swallowed == FALSE

\* _register->decodeKeyId() throws on a response that is not a success
RegisterDecodeThrows == DecodeFails(exchs[_register])

\* Bug: the Activate exchange is made from _keyId as it was before the
\* assignment of the decoded id.
ActivatedKeyId_Stale == _keyId

\* std::make_shared<KmipExchangeActivate>(_keyId), after _keyId was assigned
ActivatedKeyId == _keyId'

\* case State::kRegistering
Register_kRegistering ==
    /\ _state = kRegistering
    /\ IF ~RegisterResponseReceived THEN InvariantFailure("nextExchange")
       ELSE IF RegisterDecodeThrows
       THEN /\ exchs' = [exchs EXCEPT ![_register] = Interpret(@)]
            /\ Throw
            /\ UNCHANGED session
       ELSE /\ _keyId' = decodeKeyId(exchs[_register])
            /\ _register' = RegisterReleased
            /\ IF RegisterStopsAfterRegistering
               THEN /\ _state' = kFinished
                    /\ exchs' = [exchs EXCEPT ![_register] = Interpret(@)]
                    /\ _activate' = _activate
                    /\ Return(nullptr, exchs')
               ELSE /\ exchs' = Append([exchs EXCEPT ![_register] = Interpret(@)],
                                       NewExchange(Activate, ActivatedKeyId))
                    /\ _activate' = Len(exchs')
                    /\ _state' = kActivating
                    /\ Return(_activate', exchs')
            /\ UNCHANGED <<variant, _keyRef, _withActivation, _verifyState,
                           _verify, _retrieve, _key, _error>>

\* invariant(_activate->state() == KmipExchange::State::kResponseReceived)
ActivateResponseReceived == exchs[_activate].state = kResponseReceived

\* Bug: the activation response is not verified.
VerifyResponseThrows_Ignored == FALSE

\* _activate->verifyResponse() throws on a response that is not a success
VerifyResponseThrows == DecodeFails(exchs[_activate])

\* Bug: the Activate exchange is kept after its response was verified.
ActivateReleased_Kept == _activate

\* _activate = nullptr
ActivateReleased == nullptr

\* case State::kActivating
Register_kActivating ==
    /\ _state = kActivating
    /\ IF ~ActivateResponseReceived THEN InvariantFailure("nextExchange")
       ELSE IF VerifyResponseThrows
       THEN /\ exchs' = [exchs EXCEPT ![_activate] = Interpret(@)]
            /\ Throw
            /\ UNCHANGED session
       ELSE /\ exchs' = [exchs EXCEPT ![_activate] = Interpret(@)]
            /\ _activate' = ActivateReleased
            /\ _state' = kFinished
            /\ Return(nullptr, exchs')
            /\ UNCHANGED <<variant, _keyRef, _withActivation, _verifyState, _keyId,
                           _register, _verify, _retrieve, _key, _error>>

\* Bug: a finished session starts over on the next call.
Finished_Restart ==
    /\ _state' = kNotStarted
    /\ Return(nullptr, exchs)
    /\ UNCHANGED <<variant, _keyRef, _withActivation, _verifyState, _keyId,
                   _register, _activate, _verify, _retrieve, _key, _error, exchs>>

\* case State::kFinished: return nullptr
Finished_ReturnNull ==
    /\ Return(nullptr, exchs)
    /\ UNCHANGED <<session, exchs>>

Register_kFinished ==
    /\ _state = kFinished
    /\ Finished_ReturnNull

RegisterNextExchange ==
    /\ variant = RegisterSymmetricKey
    /\ CanCall
    /\ \/ Register_kNotStarted
       \/ Register_kRegistering
       \/ Register_kActivating
       \/ Register_kFinished

\* Bug: keyId() does not check that the session is finished.
RegisterKeyId_Unchecked ==
    /\ variant = RegisterSymmetricKey
    /\ ~aborted
    /\ got' = [got EXCEPT !.keyId = Some(_keyId)]
    /\ lastOp' = [op |-> "keyId", end |-> "returned"]
    /\ UNCHANGED <<session, exchs, ret, produced, calls, failed, aborted>>

\* const std::string& keyId() const
RegisterKeyId ==
    /\ variant = RegisterSymmetricKey
    /\ ~aborted
    /\ IF _state = kFinished
       THEN /\ got' = [got EXCEPT !.keyId = Some(_keyId)]
            /\ lastOp' = [op |-> "keyId", end |-> "returned"]
            /\ UNCHANGED <<session, exchs, ret, produced, calls, failed, aborted>>
       ELSE InvariantFailure("keyId")

\* ----------------------------------------------- KmipSessionGetSymmetricKey
\* Bug: the lambda makes the Retrieve exchange but does not return it.
transitionToRetrievingState_ReturnsNull(heap) ==
    /\ exchs' = Append(heap, NewExchange(Retrieve, _keyId))
    /\ _retrieve' = Len(exchs')
    /\ _state' = kRetrieving
    /\ Return(nullptr, exchs')

\* Bug: the Retrieve exchange is made for an empty key id.
transitionToRetrievingState_EmptyKeyId(heap) ==
    /\ exchs' = Append(heap, NewExchange(Retrieve, 0))
    /\ _retrieve' = Len(exchs')
    /\ _state' = kRetrieving
    /\ Return(_retrieve', exchs')

\* auto transitionToRetrievingState = [this]() {...}; `heap` is the heap so far.
transitionToRetrievingState(heap) ==
    /\ exchs' = Append(heap, NewExchange(Retrieve, _keyId))
    /\ _retrieve' = Len(exchs')
    /\ _state' = kRetrieving
    /\ Return(_retrieve', exchs')

\* Bug: the test of _verifyState is inverted.
GetVerifiesFirst_Inverted == ~_verifyState

\* Bug: the session verifies the key state whatever _verifyState says.
GetVerifiesFirst_Always == TRUE

\* if (_verifyState) in case State::kNotStarted
GetVerifiesFirst == _verifyState

\* case State::kNotStarted
Get_kNotStarted ==
    /\ _state = kNotStarted
    /\ IF GetVerifiesFirst
       THEN /\ exchs' = Append(exchs, NewExchange(VerifyActive, _keyId))
            /\ _verify' = Len(exchs')
            /\ _state' = kVerifying
            /\ Return(_verify', exchs')
            /\ UNCHANGED _retrieve
       ELSE /\ transitionToRetrievingState(exchs)
            /\ UNCHANGED _verify
    /\ UNCHANGED <<variant, _keyRef, _withActivation, _verifyState, _keyId,
                   _register, _activate, _key, _error>>

\* Bug: the precondition on the Verify exchange is not checked.
VerifyResponseReceived_Unchecked == TRUE

\* invariant(_verify->state() == KmipExchange::State::kResponseReceived)
VerifyResponseReceived == exchs[_verify].state = kResponseReceived

\* Bug: a reported KeyEntryError does not stop the session before retrieval.
GetVerifyFoundError_Ignored(error) == FALSE

\* if (std::optional<KeyEntryError> error = _verify->decodeResponse(); error)
GetVerifyFoundError(error) == error # None

\* Bug: whatever error the server reported, the key is recorded as missing.
VerifyErrorStored_AsMissing(error) == ErrorAlt(kKeyDoesNotExist)

\* _key = *error
VerifyErrorStored(error) == ErrorAlt(error[1])

\* Bug: the Verify exchange is kept when the session stops on a reported error.
VerifyReleased_Kept == _verify

\* _verify = nullptr, before return nullptr
VerifyReleased == nullptr

\* case State::kVerifying
Get_kVerifying ==
    /\ _state = kVerifying
    /\ IF ~VerifyResponseReceived THEN InvariantFailure("nextExchange")
       ELSE IF DecodeFails(exchs[_verify])
       THEN /\ exchs' = [exchs EXCEPT ![_verify] = Interpret(@)]
            /\ Throw
            /\ UNCHANGED session
       ELSE /\ LET error == decodeResponse(exchs[_verify])
                   heap == [exchs EXCEPT ![_verify] = Interpret(@)]
               IN  IF GetVerifyFoundError(error)
                   THEN /\ _key' = VerifyErrorStored(error)
                        /\ _state' = kFinished
                        /\ _verify' = VerifyReleased
                        /\ exchs' = heap
                        /\ Return(nullptr, exchs')
                        /\ UNCHANGED _retrieve
                   ELSE /\ _verify' = nullptr
                        /\ transitionToRetrievingState(heap)
                        /\ UNCHANGED _key
            /\ UNCHANGED <<variant, _keyRef, _withActivation, _verifyState, _keyId,
                           _register, _activate, _error>>

\* invariant(_retrieve->state() == KmipExchange::State::kResponseReceived)
RetrieveResponseReceived == exchs[_retrieve].state = kResponseReceived

\* Bug: the decoded key is not stored, _key keeps its initial value.
RetrievedKey_NotStored(key) == IF key # None THEN KeyAlt(0) ELSE ErrorAlt(kKeyDoesNotExist)

\* Bug: an absent key leaves _key as it was instead of kKeyDoesNotExist.
RetrievedKey_AbsentKept(key) == IF key # None THEN KeyAlt(key[1]) ELSE _key

\* if (std::optional<Key> key = _retrieve->decodeKey(); key) _key = *key;
\* else _key = KeyEntryError::kKeyDoesNotExist;
RetrievedKey(key) == IF key # None THEN KeyAlt(key[1]) ELSE ErrorAlt(kKeyDoesNotExist)

\* Bug: a failure of decodeKey() is swallowed and read as an absent key.
RetrieveDecodeThrows_Swallowed == FALSE

\* Bug: decodeKey() throws when the answer carries no key.
RetrieveDecodeThrows_OnAbsent ==
    DecodeFails(exchs[_retrieve]) \/ exchs[_retrieve].resp.key = None

\* _retrieve->decodeKey() throws on a response that is not a success
RetrieveDecodeThrows == DecodeFails(exchs[_retrieve])

\* Bug: the session does not leave kRetrieving once the key is decoded.
RetrieveFinishes_Stays == kRetrieving

\* _state = State::kFinished, after the key was decoded
RetrieveFinishes == kFinished

\* case State::kRetrieving
Get_kRetrieving ==
    /\ _state = kRetrieving
    /\ IF ~RetrieveResponseReceived THEN InvariantFailure("nextExchange")
       ELSE IF RetrieveDecodeThrows
       THEN /\ exchs' = [exchs EXCEPT ![_retrieve] = Interpret(@)]
            /\ Throw
            /\ UNCHANGED session
       ELSE /\ _key' = RetrievedKey(decodeKey(exchs[_retrieve]))
            /\ exchs' = [exchs EXCEPT ![_retrieve] = Interpret(@)]
            /\ _retrieve' = nullptr
            /\ _state' = RetrieveFinishes
            /\ Return(nullptr, exchs')
            /\ UNCHANGED <<variant, _keyRef, _withActivation, _verifyState, _keyId,
                           _register, _activate, _verify, _error>>

Get_kFinished ==
    /\ _state = kFinished
    /\ Finished_ReturnNull

GetNextExchange ==
    /\ variant = GetSymmetricKey
    /\ CanCall
    /\ \/ Get_kNotStarted
       \/ Get_kVerifying
       \/ Get_kRetrieving
       \/ Get_kFinished

\* Bug: key() moves the result out of the session.
GetKey_Consuming ==
    /\ variant = GetSymmetricKey
    /\ ~aborted
    /\ IF _state = kFinished
       THEN /\ got' = [got EXCEPT !.key = Some(_key)]
            /\ _key' = KeyAlt(0)
            /\ lastOp' = [op |-> "key", end |-> "returned"]
            /\ UNCHANGED <<variant, _keyRef, _withActivation, _verifyState, _keyId,
                           _state, _register, _activate, _verify, _retrieve, _error,
                           exchs, ret, produced, calls, failed, aborted>>
       ELSE InvariantFailure("key")

\* const std::variant<Key, KeyEntryError>& key()
GetKey ==
    /\ variant = GetSymmetricKey
    /\ ~aborted
    /\ IF _state = kFinished
       THEN /\ got' = [got EXCEPT !.key = Some(_key)]
            /\ lastOp' = [op |-> "key", end |-> "returned"]
            /\ UNCHANGED <<session, exchs, ret, produced, calls, failed, aborted>>
       ELSE InvariantFailure("key")

\* --------------------------------------------- KmipSessionVerifyKeyIsActive
\* case State::kNotStarted
Verify_kNotStarted ==
    /\ _state = kNotStarted
    /\ exchs' = Append(exchs, NewExchange(VerifyActive, _keyId))
    /\ _verify' = Len(exchs')
    /\ _state' = kVerifying
    /\ Return(_verify', exchs')
    /\ UNCHANGED <<variant, _keyRef, _withActivation, _verifyState, _keyId,
                   _register, _activate, _retrieve, _key, _error>>

\* Bug: the decoded error is dropped.
VerifyDecodedError_Dropped == None

\* _error = _verify->decodeResponse()
VerifyDecodedError == decodeResponse(exchs[_verify])

\* case State::kVerifying
Verify_kVerifying ==
    /\ _state = kVerifying
    /\ IF ~VerifyResponseReceived THEN InvariantFailure("nextExchange")
       ELSE IF DecodeFails(exchs[_verify])
       THEN /\ exchs' = [exchs EXCEPT ![_verify] = Interpret(@)]
            /\ Throw
            /\ UNCHANGED session
       ELSE /\ _error' = VerifyDecodedError
            /\ _state' = kFinished
            /\ exchs' = [exchs EXCEPT ![_verify] = Interpret(@)]
            /\ _verify' = nullptr
            /\ Return(nullptr, exchs')
            /\ UNCHANGED <<variant, _keyRef, _withActivation, _verifyState, _keyId,
                           _register, _activate, _retrieve, _key>>

Verify_kFinished ==
    /\ _state = kFinished
    /\ Finished_ReturnNull

VerifyNextExchange ==
    /\ variant = VerifyKeyIsActive
    /\ CanCall
    /\ \/ Verify_kNotStarted
       \/ Verify_kVerifying
       \/ Verify_kFinished

\* const std::optional<KeyEntryError>& error() const
VerifyError ==
    /\ variant = VerifyKeyIsActive
    /\ ~aborted
    /\ IF _state = kFinished
       THEN /\ got' = [got EXCEPT !.error = Some(_error)]
            /\ lastOp' = [op |-> "error", end |-> "returned"]
            /\ UNCHANGED <<session, exchs, ret, produced, calls, failed, aborted>>
       ELSE InvariantFailure("error")

\* ------------------------------------------------------------ construction
\* The three constructors; members without an initializer are value-initialized.
SessionInit ==
    /\ variant \in Variants
    /\ _withActivation \in (IF variant = RegisterSymmetricKey THEN BOOLEAN ELSE {FALSE})
    /\ _verifyState \in (IF variant = GetSymmetricKey THEN BOOLEAN ELSE {FALSE})
    /\ _keyRef \in (IF variant = RegisterSymmetricKey THEN Keys ELSE {0})
    /\ _keyId \in (IF variant = RegisterSymmetricKey THEN {0} ELSE KeyIds)
    /\ _state = kNotStarted
    /\ _register = nullptr
    /\ _activate = nullptr
    /\ _verify = nullptr
    /\ _retrieve = nullptr
    /\ _key = KeyAlt(0)
    /\ _error = None
    /\ exchs = <<>>
    /\ ret = -1
    /\ produced = <<>>
    /\ calls = 0
    /\ lastOp = [op |-> "construct", end |-> "returned"]
    /\ failed = FALSE
    /\ aborted = FALSE
    /\ got = [keyId |-> None, key |-> None, error |-> None]

\* No second session.
NoSession == <<>>

\* No writeConflictRetry() call is under way.
RetryIdle ==
    /\ skipWriteConflictRetries = FALSE
    /\ opCtx = [inAWriteUnitOfWork |-> FALSE, isFromUserConnection |-> FALSE,
                inMultiDocumentTransaction |-> FALSE,
                writeConflicts |-> 0, abandonSnapshots |-> 0]
    /\ wcr = [pc |-> "idle", writeConflictAttempts |-> 0, attemptsTempUnavailable |-> 0,
              fCalls |-> 0, fValue |-> 0, thrown |-> <<>>, backoffs |-> <<>>,
              escaped |-> "none", result |-> 0]

Init ==
    /\ SessionInit
    /\ other = NoSession
    /\ RetryIdle

\* Bug: the decoded key id is kept in a static member that all sessions share.
Alone_StaticKeyId ==
    /\ other' = IF other = NoSession THEN other ELSE [other EXCEPT !._keyId = _keyId']
    /\ UNCHANGED retry

\* A step of one session leaves everything else in the process as it is.
Alone == UNCHANGED <<other, retry>>

\* The operations on one session and on its exchanges.
Next ==
    \/ RegisterNextExchange /\ Alone
    \/ GetNextExchange /\ Alone
    \/ VerifyNextExchange /\ Alone
    \/ RegisterKeyId /\ Alone
    \/ GetKey /\ Alone
    \/ VerifyError /\ Alone
    \/ \E e \in 1..Len(exchs) : EncodeRequest(e) /\ Alone
    \/ \E e \in 1..Len(exchs) : SendRequest(e) /\ Alone
    \/ \E e \in 1..Len(exchs) : \E r \in Responses(exchs[e].kind) :
            IngestResponse(e, r) /\ Alone

Spec == Init /\ [][Next]_vars

\* ------------------------------------------------------------------ claims
IsRegister == variant = RegisterSymmetricKey
IsGet == variant = GetSymmetricKey
IsVerify == variant = VerifyKeyIsActive

\* A step that is a nextExchange() call which did not abort.
NextExchangeCalled == calls' = calls + 1

\* C1: a RegisterSymmetricKey session with withActivation=true returns a
\* Register exchange, then an Activate exchange, then nullptr in kFinished
\* when no response fails to decode; the Activate exchange exists only once
\* the Register exchange's response has been decoded.
C1_RegisterThenActivate ==
    (IsRegister /\ _withActivation) =>
        /\ produced \in {<<>>, <<Register>>, <<Register, Activate>>}
        /\ Len(exchs) = Len(produced)
        /\ \A e \in 1..Len(exchs) : exchs[e].kind = produced[e]
        /\ Len(exchs) = 2 => exchs[1].state = kInterpreted
        /\ (~failed /\ ~aborted /\ calls = 1) =>
                ret = 1 /\ produced = <<Register>> /\ _state = kRegistering
        /\ (~failed /\ ~aborted /\ calls = 2) =>
                ret = 2 /\ produced = <<Register, Activate>> /\ _state = kActivating
        /\ (~failed /\ ~aborted /\ calls = 3) =>
                ret = nullptr /\ produced = <<Register, Activate>> /\ _state = kFinished
        /\ _state = kFinished => produced = <<Register, Activate>> /\ calls >= 3

C1_Witness ==
    /\ IsRegister /\ _withActivation
    /\ calls = 3 /\ ~failed /\ ~aborted
    /\ _state = kFinished /\ ret = nullptr

\* The Activate exchange of the session, if it has received a response that
\* is not a success.
ActivateRefused ==
    /\ IsRegister
    /\ Len(exchs) = 2
    /\ exchs[2].resp.form = "failure"

\* C2: in a RegisterSymmetricKey session whose Activate response is a failure
\* the nextExchange() call that reads it throws, the session stays in
\* kActivating with the registered key id retained, never gets to kFinished,
\* and every keyId() call trips the invariant.
C2_ActivateFailureIsDecodeFailure ==
    /\ [](ActivateRefused =>
            /\ _state = kActivating
            /\ got.keyId = None
            /\ _keyId = exchs[1].resp.keyId
            /\ _keyId \in KeyIds)
    /\ [][(ActivateRefused /\ NextExchangeCalled) =>
            /\ lastOp' = [op |-> "nextExchange", end |-> "threw"]
            /\ failed'
            /\ UNCHANGED <<session, ret, produced>>]_vars
    /\ [][(ActivateRefused /\ lastOp'.op = "keyId") => aborted']_vars

C2_Witness ==
    /\ ActivateRefused
    /\ lastOp = [op |-> "nextExchange", end |-> "threw"]
    /\ _state = kActivating
    /\ _keyId \in KeyIds

\* C3: a RegisterSymmetricKey session with withActivation=false creates one
\* exchange, a Register one, never an Activate one, and once finished keyId()
\* is the id decoded from the Register response.
C3_RegisterWithoutActivation ==
    (IsRegister /\ ~_withActivation) =>
        /\ Len(exchs) <= 1
        /\ \A e \in 1..Len(exchs) : exchs[e].kind = Register
        /\ _activate = nullptr
        /\ _state # kActivating
        /\ _state = kFinished =>
                /\ produced = <<Register>>
                /\ exchs[1].resp.form = "success"
                /\ _keyId = exchs[1].resp.keyId
        /\ got.keyId # None => got.keyId = Some(exchs[1].resp.keyId)

C3_Witness ==
    /\ IsRegister /\ ~_withActivation
    /\ _state = kFinished
    /\ exchs[1].resp.keyId = NumKeyIds
    /\ got.keyId = Some(NumKeyIds)

\* The Verify exchange of a GetSymmetricKey session that verifies first, once
\* it holds the answer `answer` (an optional KeyEntryError).
GetVerifyAnswered(answer) ==
    /\ IsGet /\ _verifyState
    /\ Len(exchs) >= 1
    /\ exchs[1].resp = Success(0, answer, None)

\* C4: a GetSymmetricKey session with verifyStateFirst=true whose Verify
\* response reports KeyDoesNotExist creates the VerifyActive exchange only,
\* goes from kVerifying to kFinished, and key() is KeyDoesNotExist.
C4_VerifyReportsMissingKey ==
    GetVerifyAnswered(Some(kKeyDoesNotExist)) =>
        /\ Len(exchs) = 1
        /\ exchs[1].kind = VerifyActive
        /\ produced = <<VerifyActive>>
        /\ _retrieve = nullptr
        /\ _state \in {kVerifying, kFinished}
        /\ exchs[1].state = kInterpreted <=> _state = kFinished
        /\ _state = kFinished => _key = ErrorAlt(kKeyDoesNotExist)
        /\ got.key # None => got.key = Some(ErrorAlt(kKeyDoesNotExist))

C4_Witness ==
    /\ GetVerifyAnswered(Some(kKeyDoesNotExist))
    /\ _state = kFinished
    /\ got.key = Some(ErrorAlt(kKeyDoesNotExist))

\* C5: a GetSymmetricKey session with verifyStateFirst=true whose Verify
\* response reports the key active creates a VerifyActive exchange and then
\* a Retrieve exchange, and once finished key() is the Key decoded from the
\* Retrieve response.
C5_VerifyThenRetrieve ==
    GetVerifyAnswered(None) =>
        /\ produced \in {<<VerifyActive>>, <<VerifyActive, Retrieve>>}
        /\ Len(exchs) = Len(produced)
        /\ \A e \in 1..Len(exchs) : exchs[e].kind = produced[e]
        /\ Len(exchs) = 2 => exchs[1].state = kInterpreted
        /\ _state = kFinished =>
                /\ produced = <<VerifyActive, Retrieve>>
                /\ exchs[2].resp.form = "success"
                /\ exchs[2].resp.key # None => _key = KeyAlt(exchs[2].resp.key[1])
        /\ (got.key # None /\ exchs[2].resp.key # None) =>
                got.key = Some(KeyAlt(exchs[2].resp.key[1]))

C5_Witness ==
    /\ GetVerifyAnswered(None)
    /\ _state = kFinished
    /\ Len(exchs) = 2
    /\ exchs[2].resp.key = Some(NumKeys)
    /\ got.key = Some(KeyAlt(NumKeys))

\* C6: a GetSymmetricKey session with verifyStateFirst=false creates one
\* exchange, a Retrieve one, never a VerifyActive one, and once finished
\* key() is the Key of the Retrieve response, or KeyDoesNotExist when the
\* response carries none.
C6_RetrieveOnly ==
    (IsGet /\ ~_verifyState) =>
        /\ Len(exchs) <= 1
        /\ \A e \in 1..Len(exchs) : exchs[e].kind = Retrieve
        /\ _verify = nullptr
        /\ _state # kVerifying
        /\ _state = kFinished =>
                /\ produced = <<Retrieve>>
                /\ exchs[1].resp.form = "success"
                /\ exchs[1].resp.key # None => _key = KeyAlt(exchs[1].resp.key[1])
                /\ exchs[1].resp.key = None => _key = ErrorAlt(kKeyDoesNotExist)
        /\ got.key # None => got.key = Some(_key)

C6_Witness ==
    /\ IsGet /\ ~_verifyState
    /\ _state = kFinished
    /\ exchs[1].resp.key = None
    /\ got.key = Some(ErrorAlt(kKeyDoesNotExist))

\* C7: a VerifyKeyIsActive session creates one exchange, a VerifyActive one,
\* and once finished error() is empty when the response reports the key
\* active and is the KeyEntryError of the response otherwise.
C7_VerifyKeyIsActive ==
    IsVerify =>
        /\ Len(exchs) <= 1
        /\ \A e \in 1..Len(exchs) : exchs[e].kind = VerifyActive
        /\ _state \in {kNotStarted, kVerifying, kFinished}
        /\ _state = kFinished =>
                /\ produced = <<VerifyActive>>
                /\ exchs[1].resp.form = "success"
                /\ _error = exchs[1].resp.err
        /\ got.error # None => got.error = Some(exchs[1].resp.err)

C7_Witness ==
    /\ IsVerify
    /\ _state = kFinished
    /\ exchs[1].resp.err = Some(kKeyIsNotActive)
    /\ got.error = Some(Some(kKeyIsNotActive))

\* C8: in every session variant, a nextExchange() call on a finished session
\* returns nullptr and leaves the session finished, however often repeated.
C8_FinishedReturnsNull ==
    [][(_state = kFinished /\ lastOp'.op = "nextExchange") =>
            /\ lastOp'.end = "returned"
            /\ ret' = nullptr
            /\ _state' = kFinished
            /\ UNCHANGED <<produced, exchs>>]_vars

C8_Witness ==
    /\ _state = kFinished
    /\ calls = MaxCalls
    /\ lastOp = [op |-> "nextExchange", end |-> "returned"]
    /\ ret = nullptr

Accessors == {"keyId", "key", "error"}

\* C9: in every session variant, a terminal accessor called in a state other
\* than kFinished fails its invariant and returns no value.
C9_AccessorBeforeFinished ==
    /\ [][(_state # kFinished /\ lastOp'.op \in Accessors) =>
            /\ lastOp'.end = "aborted"
            /\ aborted'
            /\ got' = got]_vars
    /\ []((got.keyId # None \/ got.key # None \/ got.error # None) =>
            _state = kFinished)

C9_Witness ==
    /\ lastOp = [op |-> "keyId", end |-> "aborted"]
    /\ _state = kActivating
    /\ got.keyId = None

\* C10: in every session variant, a nextExchange() call made while the
\* exchange returned by the previous call has not reached kResponseReceived
\* fails its invariant: no exchange is created, the session does not change
\* and the call returns nothing.
C10_NextExchangeBeforeResponse ==
    [][(/\ lastOp'.op = "nextExchange"
        /\ ret >= 1
        /\ exchs[ret].state # kResponseReceived) =>
            /\ lastOp'.end = "aborted"
            /\ aborted'
            /\ UNCHANGED <<session, exchs, ret, produced, calls>>]_vars

C10_Witness ==
    /\ lastOp = [op |-> "nextExchange", end |-> "aborted"]
    /\ IsGet
    /\ _state = kRetrieving
    /\ exchs[ret].state = kAwaitingResponse

\* Number of exchanges the session holds a reference to.
HeldCount ==
    Cardinality({i \in 1..4 : <<_register, _activate, _verify, _retrieve>>[i] # nullptr})

\* C11: every session holds at most one exchange at a time (never _register
\* with _activate, never _verify with _retrieve), and an exchange is created
\* only when the one before it is in kResponseReceived.
C11_AtMostOneExchangeHeld ==
    /\ [](/\ HeldCount <= 1
          /\ ~(_register # nullptr /\ _activate # nullptr)
          /\ ~(_verify # nullptr /\ _retrieve # nullptr))
    /\ [][Len(exchs') > Len(exchs) =>
            /\ Len(exchs') = Len(exchs) + 1
            /\ Len(exchs) >= 1 => exchs[Len(exchs)].state = kResponseReceived]_vars

C11_Witness ==
    /\ IsRegister
    /\ _register = nullptr
    /\ _activate = 2
    /\ exchs[1].state = kInterpreted
    /\ exchs[2].state = kCreated

\* A step in which a nextExchange() call returned.
NextExchangeReturned ==
    /\ NextExchangeCalled
    /\ lastOp' = [op |-> "nextExchange", end |-> "returned"]

\* C12: in every session variant nextExchange() returns nullptr exactly when
\* it leaves the session in kFinished; so once a call has returned nullptr
\* the terminal accessor returns a value and trips no invariant.
C12_NullIffFinished ==
    /\ [][NextExchangeReturned => (ret' = nullptr <=> _state' = kFinished)]_vars
    /\ [](ret = nullptr => _state = kFinished)
    /\ [][(ret = nullptr /\ lastOp'.op \in Accessors) =>
            /\ lastOp'.end = "returned"
            /\ ~aborted'
            /\ got' # [keyId |-> None, key |-> None, error |-> None]]_vars

C12_Witness ==
    /\ IsGet
    /\ ret = nullptr
    /\ lastOp = [op |-> "key", end |-> "returned"]
    /\ got.key = Some(_key)
    /\ calls = 2

\* The exchange returned last holds a well-formed, successful answer that
\* says no: a KeyEntryError from Verify, or no key from Retrieve.
SemanticNegative ==
    /\ IsGet \/ IsVerify
    /\ ret >= 1
    /\ exchs[ret].state = kResponseReceived
    /\ exchs[ret].resp.form = "success"
    /\ \/ exchs[ret].kind = VerifyActive /\ exchs[ret].resp.err # None
       \/ exchs[ret].kind = Retrieve /\ exchs[ret].resp.key = None

\* The KeyEntryError that answer stands for.
NegativeOf(x) == IF x.kind = VerifyActive THEN x.resp.err[1] ELSE kKeyDoesNotExist

\* Some interpretation accessor has failed on a well-formed answer.
DecodeFailureSeen ==
    \E e \in 1..Len(exchs) : exchs[e].resp.form = "failure" /\ exchs[e].state = kFailed

\* What key() must be, from the answers alone.
KeyFromResponses ==
    LET last == exchs[Len(exchs)].resp
    IN  IF last.err # None THEN ErrorAlt(last.err[1])
        ELSE IF last.key # None THEN KeyAlt(last.key[1])
        ELSE ErrorAlt(kKeyDoesNotExist)

\* C13: in GetSymmetricKey and VerifyKeyIsActive sessions a semantic negative
\* answer never throws: the call that reads it returns nullptr and leaves the
\* session finished with that error as its result; a session is finished
\* with a Key, finished with a KeyEntryError, or stopped by a decode failure,
\* never two of these, and which one follows from the answers.
C13_SemanticNegativeIsResult ==
    /\ [][(SemanticNegative /\ lastOp'.op = "nextExchange") =>
            /\ lastOp'.end = "returned"
            /\ ret' = nullptr
            /\ _state' = kFinished
            /\ failed' = failed /\ ~aborted'
            /\ IsGet => _key' = ErrorAlt(NegativeOf(exchs[ret]))
            /\ IsVerify => _error' = Some(NegativeOf(exchs[ret]))]_vars
    /\ []((IsGet \/ IsVerify) =>
            /\ failed => _state # kFinished
            /\ failed <=> DecodeFailureSeen
            /\ (IsGet /\ _state = kFinished) => _key = KeyFromResponses
            /\ (IsVerify /\ _state = kFinished) => _error = exchs[1].resp.err)

C13_Witness ==
    /\ IsGet /\ _verifyState
    /\ _state = kFinished
    /\ ~failed
    /\ _key = ErrorAlt(kKeyIsNotActive)
    /\ Len(exchs) = 1

\* C14: a decode failure met by nextExchange() leaves the call as an
\* exception with the session untouched, and from then on the session makes
\* no further exchange, does not read the answer again on its own and never
\* gets to kFinished.
C14_DecodeFailureIsTerminal ==
    /\ [](DecodeFailureSeen => failed)
    /\ [](failed => _state # kFinished /\ ret >= 1 /\ exchs[ret].state = kFailed)
    /\ [][lastOp'.end = "threw" =>
            /\ DecodeFails(exchs[ret])
            /\ UNCHANGED <<session, ret, produced>>
            /\ Len(exchs') = Len(exchs)]_vars
    /\ [][failed =>
            /\ failed'
            /\ UNCHANGED <<session, ret, produced>>
            /\ Len(exchs') = Len(exchs)
            /\ lastOp'.end # "returned"]_vars

C14_Witness ==
    /\ IsGet
    /\ failed
    /\ _state = kRetrieving
    /\ lastOp = [op |-> "nextExchange", end |-> "aborted"]

\* The state changes each session class allows, by its flag.
Forward(from, to) ==
    CASE IsRegister ->
            \/ from = kNotStarted /\ to = kRegistering
            \/ from = kRegistering /\ to = kActivating /\ _withActivation
            \/ from = kRegistering /\ to = kFinished /\ ~_withActivation
            \/ from = kActivating /\ to = kFinished
      [] IsGet ->
            \/ from = kNotStarted /\ to = kVerifying /\ _verifyState
            \/ from = kNotStarted /\ to = kRetrieving /\ ~_verifyState
            \/ from = kVerifying /\ to \in {kRetrieving, kFinished}
            \/ from = kRetrieving /\ to = kFinished
      [] IsVerify ->
            \/ from = kNotStarted /\ to = kVerifying
            \/ from = kVerifying /\ to = kFinished

\* C17: the state of a session only moves forward along the order of its
\* class (kActivating only with withActivation, kVerifying of a Get session
\* only with verifyStateFirst); nothing leaves kFinished or leads back to
\* kNotStarted.
C17_StateMovesForward ==
    [][/\ _state' # _state => Forward(_state, _state')
       /\ _state = kFinished => _state' = kFinished
       /\ _state # kNotStarted => _state' # kNotStarted
       /\ UNCHANGED <<variant, _withActivation, _verifyState>>]_vars

C17_Witness ==
    /\ IsGet /\ _verifyState
    /\ _state = kRetrieving
    /\ exchs[1].state = kInterpreted
    /\ exchs[2].state = kResponseReceived

\* ------------------------------------------------ two sessions in a process
\* The members of the session at hand, and what its caller holds of it.
Snapshot ==
    [variant |-> variant,
     _keyRef |-> _keyRef,
     _withActivation |-> _withActivation,
     _verifyState |-> _verifyState,
     _keyId |-> _keyId,
     _state |-> _state,
     _register |-> _register,
     _activate |-> _activate,
     _verify |-> _verify,
     _retrieve |-> _retrieve,
     _key |-> _key,
     _error |-> _error,
     exchs |-> exchs,
     ret |-> ret,
     produced |-> produced,
     calls |-> calls,
     lastOp |-> lastOp,
     failed |-> failed,
     got |-> got]

\* A session as its constructor leaves it.
Constructed(v, wa, vs, kr, id) ==
    [variant |-> v, _keyRef |-> kr, _withActivation |-> wa, _verifyState |-> vs,
     _keyId |-> id, _state |-> kNotStarted, _register |-> nullptr,
     _activate |-> nullptr, _verify |-> nullptr, _retrieve |-> nullptr,
     _key |-> KeyAlt(0), _error |-> None, exchs |-> <<>>, ret |-> -1,
     produced |-> <<>>, calls |-> 0,
     lastOp |-> [op |-> "construct", end |-> "returned"], failed |-> FALSE,
     got |-> [keyId |-> None, key |-> None, error |-> None]]

ConstructedSessions ==
    {Constructed(RegisterSymmetricKey, wa, FALSE, kr, 0) : wa \in BOOLEAN, kr \in Keys}
    \cup {Constructed(GetSymmetricKey, FALSE, vs, 0, id) : vs \in BOOLEAN, id \in KeyIds}
    \cup {Constructed(VerifyKeyIsActive, FALSE, FALSE, 0, id) : id \in KeyIds}

\* Bug: a session whose answer has arrived gives up when its caller is busy
\* elsewhere for a while: it is finished when the caller comes back to it.
Switch_Expiring ==
    /\ ~aborted
    /\ other # NoSession
    /\ variant' = other.variant
    /\ _keyRef' = other._keyRef
    /\ _withActivation' = other._withActivation
    /\ _verifyState' = other._verifyState
    /\ _keyId' = other._keyId
    /\ _state' = IF /\ other.ret >= 1
                    /\ other.exchs[other.ret].state = kResponseReceived
                 THEN kFinished ELSE other._state
    /\ _register' = other._register
    /\ _activate' = other._activate
    /\ _verify' = other._verify
    /\ _retrieve' = other._retrieve
    /\ _key' = other._key
    /\ _error' = other._error
    /\ exchs' = other.exchs
    /\ ret' = other.ret
    /\ produced' = other.produced
    /\ calls' = other.calls
    /\ lastOp' = other.lastOp
    /\ failed' = other.failed
    /\ got' = other.got
    /\ other' = Snapshot
    /\ UNCHANGED <<aborted, retry>>

\* The caller turns from one session to the other: each session has its own
\* non-static members and its own exchanges.
Switch ==
    /\ ~aborted
    /\ other # NoSession
    /\ variant' = other.variant
    /\ _keyRef' = other._keyRef
    /\ _withActivation' = other._withActivation
    /\ _verifyState' = other._verifyState
    /\ _keyId' = other._keyId
    /\ _state' = other._state
    /\ _register' = other._register
    /\ _activate' = other._activate
    /\ _verify' = other._verify
    /\ _retrieve' = other._retrieve
    /\ _key' = other._key
    /\ _error' = other._error
    /\ exchs' = other.exchs
    /\ ret' = other.ret
    /\ produced' = other.produced
    /\ calls' = other.calls
    /\ lastOp' = other.lastOp
    /\ failed' = other.failed
    /\ got' = other.got
    /\ other' = Snapshot
    /\ UNCHANGED <<aborted, retry>>

PairInit ==
    /\ SessionInit
    /\ other \in ConstructedSessions
    /\ RetryIdle

PairNext ==
    \/ Next
    \/ Switch

\* Two sessions driven in any interleaving.
PairSpec == PairInit /\ [][PairNext]_vars

\* The constructor arguments of session o.
Arguments(o) ==
    <<o.variant, o._keyRef, o._withActivation, o._verifyState,
      IF o.variant = RegisterSymmetricKey THEN 0 ELSE o._keyId>>

\* The answers delivered to the first n exchanges of session o.
Injected(o, n) == [i \in 1..n |-> o.exchs[i].resp]

\* The terminal result of session o.
Result(o) == <<o._keyId, o._key, o._error>>

\* Sessions a and b got the same answers to their first n exchanges.
SameInjected(a, b, n) ==
    /\ Len(a.exchs) >= n
    /\ Len(b.exchs) >= n
    /\ Injected(a, n) = Injected(b, n)
    /\ \A i \in 1..n : a.exchs[i].resp # NoResponse

\* C15: two sessions made with the same arguments and given the same answers
\* return the same kinds of exchange in the same order and end with the same
\* result, however the steps of the two are interleaved.
C15_SameAnswersSameExchanges ==
    LET a == Snapshot
        b == other
    IN  Arguments(a) = Arguments(b) =>
            /\ \A n \in 0..Len(a.produced) :
                    (Len(b.produced) > n /\ Len(a.produced) > n /\ SameInjected(a, b, n))
                        => a.produced[n + 1] = b.produced[n + 1]
            /\ \A n \in 0..Len(a.exchs) :
                    (a._state = kFinished /\ Len(a.exchs) = n /\ SameInjected(a, b, n))
                        => /\ Len(b.exchs) = n
                           /\ b._state = kFinished => Result(b) = Result(a)
                           /\ ~b.failed

C15_Witness ==
    /\ Arguments(Snapshot) = Arguments(other)
    /\ IsGet /\ _verifyState
    /\ _state = kFinished /\ other._state = kFinished
    /\ produced = <<VerifyActive, Retrieve>>
    /\ SameInjected(Snapshot, other, 2)
    /\ lastOp.op = "key" /\ other.lastOp.op = "nextExchange"

\* The exchange kinds a session with o's arguments returns when it is given
\* o's answers, one after the other, and nothing else happens.
KindsAlone(o) ==
    CASE o.variant = RegisterSymmetricKey ->
            <<Register>> \o
            (IF /\ o._withActivation
                /\ o.exchs[1].resp.form = "success"
                /\ o.exchs[1].state = kInterpreted
             THEN <<Activate>> ELSE <<>>)
      [] o.variant = GetSymmetricKey ->
            IF ~o._verifyState THEN <<Retrieve>>
            ELSE <<VerifyActive>> \o
                 (IF /\ o.exchs[1].resp.form = "success"
                     /\ o.exchs[1].resp.err = None
                     /\ o.exchs[1].state = kInterpreted
                  THEN <<Retrieve>> ELSE <<>>)
      [] o.variant = VerifyKeyIsActive -> <<VerifyActive>>

\* The result of that session once it has finished.
ResultAlone(o) ==
    LET last == o.exchs[Len(o.exchs)].resp
    IN  CASE o.variant = RegisterSymmetricKey -> <<o.exchs[1].resp.keyId, KeyAlt(0), None>>
          [] o.variant = GetSymmetricKey ->
                <<o._keyId,
                  IF last.err # None THEN ErrorAlt(last.err[1])
                  ELSE IF last.key # None THEN KeyAlt(last.key[1])
                  ELSE ErrorAlt(kKeyDoesNotExist),
                  None>>
          [] o.variant = VerifyKeyIsActive -> <<o._keyId, KeyAlt(0), last.err>>

\* Session o is where a session driven alone with the same answers would be.
AsAlone(o) ==
    /\ o.calls >= 1 => o.produced = KindsAlone(o)
    /\ o.calls = 0 => o.produced = <<>>
    /\ Len(o.exchs) = Len(o.produced)
    /\ \A i \in 1..Len(o.exchs) : o.exchs[i].kind = o.produced[i]
    /\ o._state = kFinished =>
            /\ \A i \in 1..Len(o.exchs) : o.exchs[i].resp.form = "success"
            /\ Result(o) = ResultAlone(o)

\* C16: of two sessions driven in any interleaving, each returns the
\* exchanges and ends with the result it has when driven alone, and a step on
\* one session leaves every member, exchange and result of the other as it
\* was.
C16_SessionsAreIndependent ==
    /\ [](AsAlone(Snapshot) /\ AsAlone(other))
    /\ [][\/ other' = other
          \/ other' = Snapshot /\ Snapshot' = other]_vars

C16_Witness ==
    /\ IsRegister /\ other.variant = GetSymmetricKey
    /\ _state = kFinished /\ other._state = kFinished
    /\ _keyId = NumKeyIds
    /\ other._key = KeyAlt(1)
    /\ other._keyId = 1

\* C16 for one session driven alone.
AsAloneWhenAlone == AsAlone(Snapshot)

\* ------------------------------------------------------- writeConflictRetry
\* Exceptions the function f given to writeConflictRetry() can throw.
WriteConflict == "WriteConflict"
TemporarilyUnavailable == "TemporarilyUnavailable"
TransactionTooLargeForCache == "TransactionTooLargeForCache"
OtherException == "OtherException"
Exceptions ==
    {WriteConflict, TemporarilyUnavailable, TransactionTooLargeForCache, OtherException}

\* What one invocation of f does: it completes with a value or throws.
Completes(v) == [throws |-> "none", value |-> v]
Throws(k) == [throws |-> k, value |-> 0]
Outcomes == {Completes(v) : v \in 1..NumResults} \cup {Throws(k) : k \in Exceptions}

\* What a handler defined outside this header does with the exception it is
\* given: it returns, or it throws an exception of its own.
Returns == "returns"
HandlerOutcomes == {Returns, WriteConflict, TemporarilyUnavailable, TransactionTooLargeForCache}

\* What a handler does to the operation it is given through opCtx: it may
\* count a write conflict in its metrics and abandon its snapshot.
HandlerEffects == [writeConflicts : 0..1, abandonSnapshots : 0..1]
AfterHandler(ctx, m) ==
    [ctx EXCEPT !.writeConflicts = @ + m.writeConflicts,
                !.abandonSnapshots = @ + m.abandonSnapshots]

\* handleTemporarilyUnavailableExceptionInTransaction(opCtx, opStr, ns, e)
handleTemporarilyUnavailableExceptionInTransaction(h) ==
    h \in {Returns, WriteConflict}

\* handleTemporarilyUnavailableException(opCtx, attempts, opStr, ns, e): lets
\* the error escape after a finite number of attempts.
handleTemporarilyUnavailableException(attempts, h) ==
    /\ h \in {Returns, TemporarilyUnavailable, WriteConflict}
    /\ attempts > MaxTempUnavailableAttempts => h # Returns

\* handleTransactionTooLargeForCacheException(opCtx, &writeConflictAttempts,
\* opStr, ns, e): throws e, or counts it as a write conflict and returns.
handleTransactionTooLargeForCacheException(h) ==
    h \in {Returns, TransactionTooLargeForCache}

\* Bug: the failpoint applies whatever connection the client is from.
userSkipWriteConflictRetry_AnyClient == skipWriteConflictRetries

\* bool userSkipWriteConflictRetry = skipWriteConflictRetries.shouldFail() &&
\*     opCtx->getClient()->isFromUserConnection();
userSkipWriteConflictRetry ==
    skipWriteConflictRetries /\ opCtx.isFromUserConnection

\* if (opCtx->lockState()->inAWriteUnitOfWork() || userSkipWriteConflictRetry)
NoRetryLoop == opCtx.inAWriteUnitOfWork \/ userSkipWriteConflictRetry

\* The call starts: the test that chooses between the single invocation and
\* the retry loop, and the two counters of the loop.
Enter ==
    /\ wcr.pc = "called"
    /\ wcr' = [wcr EXCEPT !.pc = IF NoRetryLoop THEN "plain" ELSE "loop",
                          !.writeConflictAttempts = 0,
                          !.attemptsTempUnavailable = 0]
    /\ UNCHANGED <<object, aborted, other, skipWriteConflictRetries, opCtx>>

\* f has been invoked once more; `o` is what it did.
Invoked(w, o) ==
    [w EXCEPT !.fCalls = @ + 1,
              !.fValue = o.value,
              !.thrown = IF o.throws = "none" THEN @ ELSE Append(@, o.throws)]

\* return f();
Returned(w, o) == [w EXCEPT !.pc = "returned", !.result = o.value]

\* An exception of kind k leaves writeConflictRetry().
Escaped(w, k) == [w EXCEPT !.pc = "escaped", !.escaped = k]

\* try { return f(); } catch (TemporarilyUnavailableException const& e) {...; throw;}
PlainCall(o, h) ==
    /\ wcr.pc = "plain"
    /\ LET w == Invoked(wcr, o)
       IN  IF o.throws = "none"
           THEN wcr' = Returned(w, o) /\ h = Returns /\ UNCHANGED opCtx
           ELSE IF o.throws = TemporarilyUnavailable /\ opCtx.inMultiDocumentTransaction
           THEN /\ handleTemporarilyUnavailableExceptionInTransaction(h)
                /\ \E m \in HandlerEffects : opCtx' = AfterHandler(opCtx, m)
                /\ wcr' = Escaped(w, IF h = Returns THEN o.throws ELSE h)
           ELSE wcr' = Escaped(w, o.throws) /\ h = Returns /\ UNCHANGED opCtx
    /\ UNCHANGED <<object, aborted, other, skipWriteConflictRetries>>

\* Bug: the snapshot is not abandoned before the retry.
WriteConflictCaught_SnapshotKept(ctx) == [ctx EXCEPT !.writeConflicts = @ + 1]

\* incrementWriteConflicts(1) and abandonSnapshot() of the first catch clause
WriteConflictCaught(ctx) ==
    [ctx EXCEPT !.writeConflicts = @ + 1, !.abandonSnapshots = @ + 1]

\* Bug: the loop gives up after two write conflicts.
RetryAfterWriteConflict_Limited(attempts) == attempts < 2

\* while (true): the loop has no exit but return and an escaping exception.
RetryAfterWriteConflict(attempts) == TRUE

\* f can throw an exception that is retried only MaxRetried times in a row.
CanThrowAgain(o) ==
    o.throws \in {WriteConflict, TemporarilyUnavailable, TransactionTooLargeForCache}
        => Len(wcr.thrown) < MaxRetried

\* One turn of while (true) { try { return f(); } catch ... }
LoopIteration(o, h) ==
    /\ wcr.pc = "loop"
    /\ CanThrowAgain(o)
    /\ LET w == Invoked(wcr, o)
       IN  CASE o.throws = "none" ->
                    /\ h = Returns
                    /\ wcr' = Returned(w, o)
                    /\ UNCHANGED opCtx
             [] o.throws = WriteConflict ->
                    /\ h = Returns
                    /\ opCtx' = WriteConflictCaught(opCtx)
                    /\ wcr' = IF RetryAfterWriteConflict(wcr.writeConflictAttempts)
                              THEN [w EXCEPT !.backoffs = Append(@, wcr.writeConflictAttempts),
                                             !.writeConflictAttempts = @ + 1]
                              ELSE Escaped(w, o.throws)
             [] o.throws = TemporarilyUnavailable ->
                    /\ handleTemporarilyUnavailableException(wcr.attemptsTempUnavailable + 1, h)
                    /\ wcr' = IF h = Returns
                              THEN [w EXCEPT !.attemptsTempUnavailable = @ + 1]
                              ELSE Escaped([w EXCEPT !.attemptsTempUnavailable = @ + 1], h)
                    /\ \E m \in HandlerEffects : opCtx' = AfterHandler(opCtx, m)
             [] o.throws = TransactionTooLargeForCache ->
                    /\ handleTransactionTooLargeForCacheException(h)
                    /\ wcr' = IF h = Returns
                              THEN [w EXCEPT !.writeConflictAttempts = @ + 1]
                              ELSE Escaped(w, h)
                    /\ \E m \in HandlerEffects : opCtx' = AfterHandler(opCtx, m)
             [] o.throws = OtherException ->
                    /\ h = Returns
                    /\ wcr' = Escaped(w, o.throws)
                    /\ UNCHANGED opCtx
    /\ UNCHANGED <<object, aborted, other, skipWriteConflictRetries>>

\* A writeConflictRetry() call on an operation context in any condition.
RetryInit ==
    /\ variant = VerifyKeyIsActive
    /\ _withActivation = FALSE
    /\ _verifyState = FALSE
    /\ _keyRef = 0
    /\ _keyId = 1
    /\ SessionInit
    /\ other = NoSession
    /\ skipWriteConflictRetries \in BOOLEAN
    /\ opCtx \in [inAWriteUnitOfWork : BOOLEAN, isFromUserConnection : BOOLEAN,
                  inMultiDocumentTransaction : BOOLEAN,
                  writeConflicts : {0}, abandonSnapshots : {0}]
    /\ wcr = [pc |-> "called", writeConflictAttempts |-> 0, attemptsTempUnavailable |-> 0,
              fCalls |-> 0, fValue |-> 0, thrown |-> <<>>, backoffs |-> <<>>,
              escaped |-> "none", result |-> 0]

RetryNext ==
    \/ Enter
    \/ \E o \in Outcomes : \E h \in HandlerOutcomes : PlainCall(o, h)
    \/ \E o \in Outcomes : \E h \in HandlerOutcomes : LoopIteration(o, h)

RetrySpec == RetryInit /\ [][RetryNext]_vars

\* ------------------------------------------- claims about writeConflictRetry
\* This step is an invocation of f that threw an exception of kind k.
FThrew(k) ==
    /\ wcr'.fCalls = wcr.fCalls + 1
    /\ wcr'.thrown = Append(wcr.thrown, k)

\* This step is an invocation of f that completed.
FCompleted ==
    /\ wcr'.fCalls = wcr.fCalls + 1
    /\ wcr'.thrown = wcr.thrown

\* writeConflictRetry() goes on to invoke f again.
Retries == wcr'.pc = "loop"

\* The exception of kind k leaves writeConflictRetry() and f is not called again.
Escapes(k) == wcr'.pc = "escaped" /\ wcr'.escaped = k

\* C18: when not already in a WriteUnitOfWork, writeConflictRetry re-invokes f
\* until f completes or throws an exception other than WriteConflictException
\* or TemporarilyUnavailableException: a write conflict is retried, and an
\* exception of any other kind escapes at once, f not being called again.
C18_OnlyConflictAndUnavailableRetried ==
    [][~opCtx.inAWriteUnitOfWork =>
          /\ FThrew(WriteConflict) => Retries
          /\ FThrew(TemporarilyUnavailable) => Retries \/ wcr'.pc = "escaped"
          /\ \A k \in Exceptions \ {WriteConflict, TemporarilyUnavailable} :
                FThrew(k) => Escapes(k)
          /\ wcr.pc \in {"returned", "escaped"} => wcr'.fCalls = wcr.fCalls]_vars

\* C19: already in a WriteUnitOfWork, f is invoked exactly once with no retry
\* logic: a WriteConflictException or TemporarilyUnavailableException thrown
\* by f propagates to the caller, and no write-conflict metric increment,
\* backoff or abandonSnapshot is performed.
C19_InWriteUnitOfWorkSingleCall ==
    opCtx.inAWriteUnitOfWork =>
        /\ wcr.pc # "loop"
        /\ wcr.fCalls <= 1
        /\ wcr.pc \in {"returned", "escaped"} => wcr.fCalls = 1
        /\ \A k \in {WriteConflict, TemporarilyUnavailable} :
              wcr.thrown = <<k>> => wcr.pc = "escaped" /\ wcr.escaped = k
        /\ opCtx.writeConflicts = 0
        /\ wcr.backoffs = <<>>
        /\ opCtx.abandonSnapshots = 0

\* C20 as stated: outside a WriteUnitOfWork every WriteConflictException
\* thrown by f is followed by another invocation of f, however many have
\* already occurred, and f's value is returned as soon as f completes.
C20_EveryWriteConflictRetried ==
    [][~opCtx.inAWriteUnitOfWork =>
          /\ FThrew(WriteConflict) => Retries
          /\ wcr.pc = "loop" => wcr'.fCalls = wcr.fCalls + 1
          /\ FCompleted => wcr'.pc = "returned" /\ wcr'.result = wcr'.fValue]_vars

\* C20: outside a WriteUnitOfWork, and unless the skipWriteConflictRetries
\* failpoint is active for an operation from a user connection, every
\* WriteConflictException thrown by f is followed by another invocation of f,
\* however many have already occurred; f's value is returned as soon as one
\* invocation of f completes.
C20_WriteConflictRetriedUnlessSkipped ==
    [][/\ ~NoRetryLoop =>
             /\ FThrew(WriteConflict) => Retries
             /\ wcr.pc = "loop" => wcr'.fCalls = wcr.fCalls + 1
       /\ FCompleted => wcr'.pc = "returned" /\ wcr'.result = wcr'.fValue]_vars

\* f threw MaxRetried write conflicts in a row, was invoked once more, and its
\* value was returned.
C20_Witness ==
    /\ ~NoRetryLoop
    /\ Len(wcr.thrown) = MaxRetried
    /\ \A i \in 1..Len(wcr.thrown) : wcr.thrown[i] = WriteConflict
    /\ wcr.fCalls = MaxRetried + 1
    /\ wcr.pc = "returned"
    /\ wcr.result = NumResults

\* ------------------------------------------- exchanges and terminal results
\* Position of a KmipExchange::State in the lifecycle; the two ends share the
\* last one.
Rank(st) ==
    CASE st = kCreated -> 1
      [] st = kRequestEncoded -> 2
      [] st = kAwaitingResponse -> 3
      [] st = kResponseReceived -> 4
      [] st \in {kInterpreted, kFailed} -> 5

\* The exchanges the session has a shared_ptr to.
Held == {_register, _activate, _verify, _retrieve} \ {nullptr}

\* C21: the state of an exchange only moves forward through kCreated,
\* kRequestEncoded, kAwaitingResponse, kResponseReceived and then kInterpreted
\* or kFailed; no operation takes an exchange back or removes it, and a session
\* that has interpreted an exchange holds it no longer and never returns it
\* from a later nextExchange() call.
C21_ExchangeMovesForward ==
    /\ [][/\ Len(exchs') >= Len(exchs)
          /\ \A e \in 1..Len(exchs) :
                /\ exchs'[e].kind = exchs[e].kind
                /\ exchs'[e].input = exchs[e].input
                /\ exchs'[e].state # exchs[e].state =>
                        Rank(exchs'[e].state) > Rank(exchs[e].state)
                /\ exchs[e].state = kResponseReceived =>
                        exchs'[e].state \in {kResponseReceived, kInterpreted, kFailed}]_vars
    /\ [](\A e \in 1..Len(exchs) : exchs[e].state = kInterpreted => e \notin Held)
    /\ [][(NextExchangeReturned /\ ret' # nullptr) =>
            /\ ret' = Len(exchs) + 1
            /\ exchs'[ret'].state = kCreated]_vars

C21_Witness ==
    /\ IsRegister
    /\ Len(exchs) = 2
    /\ exchs[1].state = kInterpreted
    /\ exchs[2].state = kInterpreted
    /\ Held = {}
    /\ calls = 4

\* C22: in a RegisterSymmetricKey session with withActivation=true the
\* Activate exchange is bound to the key id decoded from the Register
\* response, and once the session is finished keyId() returns that same id.
C22_RegisteredIdIsActivatedId ==
    (IsRegister /\ _withActivation /\ Len(exchs) = 2) =>
        /\ exchs[1].kind = Register
        /\ exchs[1].resp.form = "success"
        /\ exchs[2].kind = Activate
        /\ exchs[2].input = decodeKeyId(exchs[1])
        /\ exchs[2].input \in KeyIds
        /\ _keyId = exchs[2].input
        /\ got.keyId # None => _state = kFinished /\ got.keyId = Some(exchs[2].input)

C22_Witness ==
    /\ IsRegister /\ _withActivation
    /\ _state = kFinished
    /\ exchs[1].resp.keyId = NumKeyIds
    /\ exchs[2].input = NumKeyIds
    /\ got.keyId = Some(NumKeyIds)

\* C23: every exchange a GetSymmetricKey session creates, VerifyActive or
\* Retrieve, is bound to the key id given at construction: the session never
\* changes _keyId, and each exchange's input is that id.
C23_GetKeepsKeyId ==
    /\ [][IsGet => _keyId' = _keyId]_vars
    /\ [](IsGet =>
            /\ _keyId \in KeyIds
            /\ \A e \in 1..Len(exchs) :
                  /\ exchs[e].kind \in {VerifyActive, Retrieve}
                  /\ exchs[e].input = _keyId)

C23_Witness ==
    /\ IsGet /\ _verifyState
    /\ Len(exchs) = 2
    /\ exchs[1].kind = VerifyActive /\ exchs[1].input = NumKeyIds
    /\ exchs[2].kind = Retrieve /\ exchs[2].input = NumKeyIds
    /\ _state = kFinished

\* C24: in a GetSymmetricKey session with verifyStateFirst=true, whichever
\* KeyEntryError e the Verify response decodes to, the nextExchange() call
\* that reads it stores exactly e, creates no Retrieve exchange, finishes and
\* returns nullptr; key() then returns e.
C24_AnyVerifyErrorIsResult ==
    /\ [](\A e \in KeyEntryError : GetVerifyAnswered(Some(e)) =>
            /\ Len(exchs) = 1
            /\ produced = <<VerifyActive>>
            /\ _retrieve = nullptr
            /\ _state \in {kVerifying, kFinished}
            /\ _state = kFinished => _key = ErrorAlt(e)
            /\ got.key # None => got.key = Some(ErrorAlt(e)))
    /\ [][\A e \in KeyEntryError : (GetVerifyAnswered(Some(e)) /\ NextExchangeCalled) =>
            /\ lastOp' = [op |-> "nextExchange", end |-> "returned"]
            /\ ret' = nullptr
            /\ _state' = kFinished
            /\ _key' = ErrorAlt(e)
            /\ exchs'[1].state = kInterpreted]_vars

C24_Witness ==
    /\ GetVerifyAnswered(Some(kKeyIsNotActive))
    /\ _state = kFinished
    /\ _key = ErrorAlt(kKeyIsNotActive)
    /\ got.key = Some(ErrorAlt(kKeyIsNotActive))

\* The Verify response said the key is active and the Retrieve response that
\* followed is a success carrying no key.
ActiveThenGone ==
    /\ GetVerifyAnswered(None)
    /\ Len(exchs) = 2
    /\ exchs[2].resp = Success(0, None, None)

\* C25: in a GetSymmetricKey session with verifyStateFirst=true whose Verify
\* response reports the key active and whose Retrieve response carries no
\* key, the nextExchange() call that reads the Retrieve response does not
\* throw: the session is finished after exactly two exchanges and key() is
\* KeyDoesNotExist.
C25_KeyGoneAfterVerify ==
    /\ [](ActiveThenGone =>
            /\ produced = <<VerifyActive, Retrieve>>
            /\ ~failed
            /\ _state \in {kRetrieving, kFinished}
            /\ _state = kFinished => _key = ErrorAlt(kKeyDoesNotExist)
            /\ got.key # None => got.key = Some(ErrorAlt(kKeyDoesNotExist)))
    /\ [][(ActiveThenGone /\ NextExchangeCalled) =>
            /\ lastOp' = [op |-> "nextExchange", end |-> "returned"]
            /\ ret' = nullptr
            /\ _state' = kFinished
            /\ _key' = ErrorAlt(kKeyDoesNotExist)
            /\ Len(exchs') = 2]_vars

C25_Witness ==
    /\ ActiveThenGone
    /\ _state = kFinished
    /\ calls = 3
    /\ got.key = Some(ErrorAlt(kKeyDoesNotExist))

\* The Register exchange of the session holds an answer that decodeKeyId()
\* cannot decode.
RegisterUndecodable ==
    /\ IsRegister
    /\ Len(exchs) >= 1
    /\ exchs[1].resp.form \in {"failure", "malformed"}

\* C26: in a RegisterSymmetricKey session whose Register response fails to
\* decode, no Activate exchange is ever created, _keyId stays unset and the
\* session stays in kRegistering; the nextExchange() call that reads the
\* response ends by an exception or by a failed invariant, never by a return.
C26_RegisterDecodeFailureStops ==
    /\ [](RegisterUndecodable =>
            /\ Len(exchs) = 1
            /\ produced = <<Register>>
            /\ _activate = nullptr
            /\ _keyId = 0
            /\ _state = kRegistering
            /\ got.keyId = None)
    /\ [][(RegisterUndecodable /\ lastOp'.op = "nextExchange" /\ lastOp' # lastOp) =>
            lastOp'.end \in {"threw", "aborted"}]_vars

C26_Witness ==
    /\ RegisterUndecodable
    /\ _withActivation
    /\ exchs[1].state = kFailed
    /\ lastOp = [op |-> "nextExchange", end |-> "threw"]
    /\ calls = 2

\* C27: in every session variant a session in kFinished holds no exchange,
\* and the nextExchange() call that interprets an exchange's response without
\* failure releases the session's pointer to it in that same call.
C27_FinishedHoldsNothing ==
    /\ [](_state = kFinished =>
            /\ _register = nullptr /\ _activate = nullptr
            /\ _verify = nullptr /\ _retrieve = nullptr)
    /\ [][\A e \in 1..Len(exchs) :
            (exchs[e].state = kResponseReceived /\ exchs'[e].state = kInterpreted) =>
                /\ NextExchangeReturned
                /\ e \in Held
                /\ e \notin Held']_vars

C27_Witness ==
    /\ IsGet /\ _verifyState
    /\ _state = kFinished
    /\ Len(exchs) = 1
    /\ exchs[1].state = kInterpreted
    /\ Held = {}

\* C28: across any sequence of nextExchange() calls on any session variant
\* the session calls an interpretation accessor (decodeKeyId, verifyResponse,
\* decodeResponse, decodeKey) of an exchange only when that exchange is in
\* kResponseReceived, and at most once per exchange.
C28_AccessorOnceOnReceived ==
    /\ [](\A e \in 1..Len(exchs) : exchs[e].decoded <= 1)
    /\ [][\A e \in 1..Len(exchs) : exchs'[e].decoded # exchs[e].decoded =>
            /\ NextExchangeCalled
            /\ e \in Held
            /\ exchs[e].state = kResponseReceived
            /\ exchs[e].decoded = 0
            /\ exchs'[e].state \in {kInterpreted, kFailed}]_vars

C28_Witness ==
    /\ IsGet
    /\ Len(exchs) = 2
    /\ exchs[1].decoded = 1 /\ exchs[1].state = kInterpreted
    /\ exchs[2].decoded = 1 /\ exchs[2].state = kFailed
    /\ calls = 3
    /\ lastOp = [op |-> "nextExchange", end |-> "aborted"]

\* ---------------------------------------------------------- the driver loop
\* while (exchange = session.nextExchange()) {
\*     bytes = transport.send(exchange.encodeRequest());
\*     exchange.ingestResponse(bytes) }
\* then the terminal accessor is read. The loop ends on an exception and on
\* a response that cannot be parsed.
DriverMayAsk ==
    /\ ~failed
    /\ \/ ret = -1
       \/ ret >= 1 /\ exchs[ret].state = kResponseReceived

DriverMayRead ==
    /\ ret = nullptr
    /\ got = [keyId |-> None, key |-> None, error |-> None]

DriverInit == Init

DriverNext ==
    \/ DriverMayAsk /\ RegisterNextExchange /\ Alone
    \/ DriverMayAsk /\ GetNextExchange /\ Alone
    \/ DriverMayAsk /\ VerifyNextExchange /\ Alone
    \/ ret >= 1 /\ EncodeRequest(ret) /\ Alone
    \/ ret >= 1 /\ SendRequest(ret) /\ Alone
    \/ ret >= 1 /\ \E r \in Responses(exchs[ret].kind) : IngestResponse(ret, r) /\ Alone
    \/ DriverMayRead /\ RegisterKeyId /\ Alone
    \/ DriverMayRead /\ GetKey /\ Alone
    \/ DriverMayRead /\ VerifyError /\ Alone

\* The driver goes on while it has something to do, and the transport
\* answers every request.
DriverSpec == DriverInit /\ [][DriverNext]_vars /\ WF_vars(DriverNext)

\* Some exchange received a response that does not decode.
UndecodableResponse ==
    \E e \in 1..Len(exchs) : exchs[e].resp.form \in {"failure", "malformed"}

\* C29: under the driver loop, unless some exchange receives a response that
\* fails to decode, every session eventually reaches kFinished; it does so
\* after at least one and at most two exchanges (VerifyKeyIsActive: exactly
\* one), and the first nextExchange() call of any session returns an exchange.
C29_DriverReachesFinished ==
    /\ <>(_state = kFinished \/ UndecodableResponse)
    /\ [](_state = kFinished =>
            /\ Len(produced) \in 1..2
            /\ Len(exchs) = Len(produced)
            /\ IsVerify => Len(produced) = 1)
    /\ [][(calls = 0 /\ NextExchangeCalled) =>
            /\ lastOp' = [op |-> "nextExchange", end |-> "returned"]
            /\ ret' = 1
            /\ Len(exchs') = 1]_vars

C29_Witness ==
    /\ IsGet /\ _verifyState
    /\ _state = kFinished
    /\ ~UndecodableResponse
    /\ produced = <<VerifyActive, Retrieve>>
    /\ calls = 3
    /\ got.key = Some(_key)

\* C30: once a session is in kFinished its terminal result is frozen: no
\* operation, keyId(), key(), error() or a further nextExchange(), changes any
\* member of the session, and every value an accessor has returned is the
\* result the session holds.
C30_FinishedResultFrozen ==
    /\ [][_state = kFinished =>
            /\ UNCHANGED session
            /\ lastOp'.op \in Accessors => lastOp'.end = "returned" /\ ~aborted']_vars
    /\ [](/\ got.keyId # None => _state = kFinished /\ got.keyId = Some(_keyId)
          /\ got.key # None => _state = kFinished /\ got.key = Some(_key)
          /\ got.error # None => _state = kFinished /\ got.error = Some(_error))

C30_Witness ==
    /\ IsGet /\ ~_verifyState
    /\ _state = kFinished
    /\ got.key = Some(KeyAlt(NumKeys))
    /\ _key = KeyAlt(NumKeys)
    /\ lastOp = [op |-> "nextExchange", end |-> "returned"]
    /\ calls = 4

\* C31: the attempt number writeConflictRetry passes to
\* logWriteConflictAndBackoff is 1 based: for the k-th WriteConflictException
\* caught in one call (k >= 1) the function is called with attempt = k.
C31_AttemptIsOneBased ==
    \A k \in 1..Len(wcr.backoffs) : wcr.backoffs[k] = k

\* The failpoint is active, the client is internal and the operation is not
\* in a WriteUnitOfWork.
InternalWithFailpoint ==
    /\ skipWriteConflictRetries
    /\ ~opCtx.isFromUserConnection
    /\ ~opCtx.inAWriteUnitOfWork

\* The call ended by an exception right after f threw a WriteConflictException.
WriteConflictEscaped ==
    /\ wcr.pc = "escaped"
    /\ wcr.thrown # <<>>
    /\ wcr.thrown[Len(wcr.thrown)] = WriteConflict

\* C32: the skipWriteConflictRetries failpoint disables the retry loop only
\* for a client from a user connection: with the failpoint active, an
\* operation of an internal client outside a WriteUnitOfWork runs the loop,
\* every WriteConflictException f throws is caught and retried, and none
\* escapes writeConflictRetry; for a user connection the loop is not run.
C32_FailpointSparesInternalClients ==
    /\ [](InternalWithFailpoint => wcr.pc # "plain" /\ ~WriteConflictEscaped)
    /\ [][(InternalWithFailpoint /\ FThrew(WriteConflict)) =>
            /\ Retries
            /\ wcr'.backoffs = Append(wcr.backoffs, wcr.writeConflictAttempts)]_vars
    /\ []((skipWriteConflictRetries /\ opCtx.isFromUserConnection) => wcr.pc # "loop")

C32_Witness ==
    /\ InternalWithFailpoint
    /\ wcr.thrown = <<WriteConflict, WriteConflict>>
    /\ wcr.fCalls = 3
    /\ wcr.pc = "returned"

\* Number of WriteConflictExceptions f has thrown.
ConflictsThrown ==
    Cardinality({i \in 1..Len(wcr.thrown) : wcr.thrown[i] = WriteConflict})

\* writeConflictRetry() ran its loop and returned f's value.
LoopReturned == ~NoRetryLoop /\ wcr.pc = "returned"

\* C33 as stated: in the retry loop each caught WriteConflictException adds
\* exactly one to the write-conflict metric and one abandonSnapshot() before
\* f is invoked again, so at return the metric increments, the
\* abandonSnapshot() calls and the write conflicts caught are equally many and
\* f was invoked that number plus the other retried exceptions plus one times.
C33_CountersAgree ==
    /\ [](LoopReturned =>
            /\ opCtx.writeConflicts = ConflictsThrown
            /\ opCtx.abandonSnapshots = ConflictsThrown
            /\ wcr.fCalls = ConflictsThrown + (Len(wcr.thrown) - ConflictsThrown) + 1)
    /\ [][(~NoRetryLoop /\ FThrew(WriteConflict)) =>
            /\ opCtx'.writeConflicts = opCtx.writeConflicts + 1
            /\ opCtx'.abandonSnapshots = opCtx.abandonSnapshots + 1
            /\ Retries]_vars

\* C33: in the retry loop the catch clause of WriteConflictException adds
\* exactly one to the write-conflict metric and calls abandonSnapshot() once
\* before f is invoked again; at return f was invoked once more than the
\* number of exceptions retried, and the metric increments and
\* abandonSnapshot() calls are at least as many as the write conflicts caught,
\* exactly as many when no other exception was retried.
C33_OwnCountersAgree ==
    /\ [](LoopReturned =>
            /\ wcr.fCalls = Len(wcr.thrown) + 1
            /\ opCtx.writeConflicts >= ConflictsThrown
            /\ opCtx.abandonSnapshots >= ConflictsThrown
            /\ ConflictsThrown = Len(wcr.thrown) =>
                    /\ opCtx.writeConflicts = ConflictsThrown
                    /\ opCtx.abandonSnapshots = ConflictsThrown)
    /\ [][(~NoRetryLoop /\ FThrew(WriteConflict)) =>
            /\ opCtx'.writeConflicts = opCtx.writeConflicts + 1
            /\ opCtx'.abandonSnapshots = opCtx.abandonSnapshots + 1
            /\ Retries]_vars
    /\ [][FCompleted => opCtx' = opCtx]_vars

C33_Witness ==
    /\ LoopReturned
    /\ wcr.thrown = <<WriteConflict, TemporarilyUnavailable, WriteConflict>>
    /\ wcr.fCalls = 4
    /\ opCtx.writeConflicts = 2
    /\ opCtx.abandonSnapshots = 3

====
